---- MODULE Spec2Model ----
(***************************************************************************)
(* The YouTube extractor of lux (extractors/youtube/youtube.go).           *)
(*                                                                         *)
(* The specifications share the definitions of youtubeDownload:           *)
(*   SpecSingle  Extract with option.Playlist = false (one video)          *)
(*   SpecSingleResolvable  the same, every stream URL resolving            *)
(*   Spec        Extract with option.Playlist = true  (worker pool)        *)
(*                                                                         *)
(* Strings that the code takes apart (MIME types) are sequences of tokens, *)
(* so that the regular expression of getStreamExt and the substring filter *)
(* of getVideoAudio are computed, not assumed.                             *)
(***************************************************************************)
EXTENDS Integers, Sequences, FiniteSets, TLC

VARIABLES
    pc,                 \* position of the goroutine that runs Extract
    video,              \* single mode: the video GetVideo returns
    failing,            \* itags for which client.GetStreamURL fails
    probeFailing,       \* itags for whose URL request.Size fails
    call,               \* single mode: the youtubeDownload invocation
    playlist,           \* playlist.Videos: the entries, in playlist order
    failEntries,        \* entries for which VideoFromPlaylistEntry fails
    needDownloadItems,  \* the list utils.NeedDownloadList returned
    threadNumber,       \* option.ThreadNumber
    extractedData,      \* the output slice
    dataIndex,          \* next free output slot
    index,              \* loop variable over playlist.Videos (0-based)
    wgp,                \* the WaitGroupPool
    tasks,              \* the goroutines started so far, in dispatch order
    writes,             \* history: slot indices in the order they were written
    ret,                \* Extract's first return value
    err                 \* Extract's second return value

vars == <<pc, video, failing, probeFailing, call, playlist, failEntries,
          needDownloadItems, threadNumber, extractedData, dataIndex, index,
          wgp, tasks, writes, ret, err>>

-----------------------------------------------------------------------------
(* Bounds of the model *)

MaxFormats == 5     \* longest video.Formats in single mode
NumEntries == 3     \* len(playlist.Videos)
MaxItems == 3       \* longest list NeedDownloadList returns
MaxThreads == 2     \* largest option.ThreadNumber

-----------------------------------------------------------------------------
(* Values *)

Nil == [nil |-> TRUE]

\* a nil slice: no elements
NilSlice == <<>>

NoErr == [msg |-> "nil", itag |-> 0, stack |-> FALSE]

\* the URL Extract was called with
SourceURL == "https://www.youtube.com/watch"

referer == "https://www.youtube.com"

\* errors.WithStack keeps the cause and adds a stack trace
WithStack(e) == [e EXCEPT !.stack = TRUE]

\* errors.New
ErrorsNew(m) == [msg |-> m, itag |-> 0, stack |-> TRUE]

\* the error client.GetStreamURL reports for a format
StreamURLError(f) == [msg |-> "cannot resolve stream url", itag |-> f.ItagNo, stack |-> FALSE]

EntryError == [msg |-> "cannot resolve video", itag |-> 0, stack |-> FALSE]

PlaylistError == [msg |-> "cannot resolve playlist", itag |-> 0, stack |-> FALSE]

\* A MIME type "video/webm; codecs=vp9" is the token sequence
\* <<"video", "/", "webm", ";", "codecs", "vp9">>; one without a parameter
\* section has no ";" token.
Mime(type, subtype, codec) ==
    IF codec = "" THEN <<type, "/", subtype>>
    ELSE <<type, "/", subtype, ";", "codecs", codec>>

Format(itag, mime, label, channels, length, bitrate) ==
    [ItagNo |-> itag, MimeType |-> mime, QualityLabel |-> label,
     AudioChannels |-> channels, ContentLength |-> length, Bitrate |-> bitrate]

\* The formats a video may offer (youtube.Format values).
FormatCatalog ==
    { Format(18,  Mime("video", "mp4",  "avc1"), "360p",  2, 5, 1),
      Format(248, Mime("video", "webm", "vp9"),  "1080p", 0, 0, 3),
      Format(247, Mime("video", "webm", "vp9"),  "720p",  0, 5, 2),
      Format(244, Mime("video", "webm", "vp9"),  "480p",  0, 5, 1),
      Format(251, Mime("audio", "webm", "opus"), "",      2, 5, 2),
      Format(140, Mime("audio", "mp4",  "mp4a"), "",      2, 5, 1),
      Format(17,  Mime("video", "3gpp", ""),     "144p",  0, 0, 1) }

\* sequences of distinct elements of S, of length at most n
DistinctSeqs(S, n) ==
    UNION { { s \in [1..k -> S] : \A i, j \in 1..k : i < j => s[i] # s[j] } :
            k \in 0..n }

Range(s) == { s[i] : i \in DOMAIN s }

-----------------------------------------------------------------------------
(* getStreamExt *)

IsWord(tok) == tok \notin {"/", ";", " ", "="}

\* utils.MatchOneOf(text, `(\w+)/(\w+);`): the submatches of the leftmost
\* match, <<whole, group 1, group 2>>, or <<>> (nil) when nothing matches.
MatchOneOf(text) ==
    LET hits == { i \in 1..Len(text) :
                    /\ i + 3 <= Len(text)
                    /\ IsWord(text[i]) /\ text[i + 1] = "/"
                    /\ IsWord(text[i + 2]) /\ text[i + 3] = ";" }
    IN  IF hits = {} THEN <<>>
        ELSE LET i == CHOOSE h \in hits : \A g \in hits : h <= g
             IN  <<SubSeq(text, i, i + 3), text[i], text[i + 2]>>

getStreamExt(streamType) ==
    LET exts == MatchOneOf(streamType)
    IN  IF exts = <<>> \/ Len(exts) < 3 THEN "" ELSE exts[3]

-----------------------------------------------------------------------------
(* Collaborators of youtubeDownload *)

EmptyMap == [k \in {} |-> Nil]

\* The extractor e stands for its client and the network behind it: the
\* formats whose URL cannot be resolved and the URLs whose size cannot be
\* probed.
Extractor == [failing |-> failing, probeFailing |-> probeFailing]

\* e.client.GetStreamURL(video, f): the signed URL of that format of that
\* video, or an error; the outcome is fixed per format
GetStreamURL(e, v, f) ==
    IF f.ItagNo \in e.failing
    THEN [url |-> <<>>, err |-> StreamURLError(f)]
    ELSE [url |-> <<v.ID, f.ItagNo>>, err |-> NoErr]

\* request.Size(url, referer): the size the server reports, or 0 and an
\* error
RequestSize(e, url, ref) ==
    IF url[2] \in e.probeFailing
    THEN [size |-> 0, err |-> [msg |-> "size probe failed", itag |-> url[2], stack |-> FALSE]]
    ELSE [size |-> 1000 + url[2], err |-> NoErr]

\* extractors.EmptyData(url, err)
EmptyData(url, e) ==
    [Site |-> "", Title |-> "", Type |-> "", Streams |-> EmptyMap,
     URL |-> url, Err |-> e]

\* strings.Contains(mimeType, t), on tokens
Contains(mimeType, t) == t = "" \/ \E i \in DOMAIN mimeType : mimeType[i] = t

\* FormatList.Type(t): the formats whose MIME type contains t, in list order
Type(list, t) == SelectSeq(list, LAMBDA f : Contains(f.MimeType, t))

RemoveAt(list, i) == SubSeq(list, 1, i - 1) \o SubSeq(list, i + 1, Len(list))

\* FormatList.Sort(): stable, best (highest bitrate) first
RECURSIVE Sort(_)
Sort(list) ==
    IF list = <<>> THEN <<>>
    ELSE LET i == CHOOSE h \in DOMAIN list :
                    /\ \A g \in DOMAIN list : list[g].Bitrate <= list[h].Bitrate
                    /\ \A g \in 1..(h - 1) : list[g].Bitrate < list[h].Bitrate
         IN  <<list[i]>> \o Sort(RemoveAt(list, i))

-----------------------------------------------------------------------------
(* genPartByFormat, getVideoAudio *)

\* faulty variant: the error of request.Size is returned instead of dropped
genPartProbeFatal(e, v, f) ==
    LET ext == getStreamExt(f.MimeType)
        u   == GetStreamURL(e, v, f)
    IN  IF u.err # NoErr
        THEN [part |-> Nil, err |-> WithStack(u.err), probes |-> <<>>]
        ELSE LET probe == f.ContentLength = 0
                 sized == RequestSize(e, u.url, referer)
             IN  IF probe /\ sized.err # NoErr
                 THEN [part |-> Nil, err |-> WithStack(sized.err), probes |-> <<u.url>>]
                 ELSE [part   |-> [URL |-> u.url,
                                   Size |-> IF probe THEN sized.size ELSE f.ContentLength,
                                   Ext |-> ext],
                       err    |-> NoErr,
                       probes |-> IF probe THEN <<u.url>> ELSE <<>>]

\* returns the Part (or Nil), the error, and the probes it issued
genPartByFormat(e, v, f) ==
    LET ext == getStreamExt(f.MimeType)
        u   == GetStreamURL(e, v, f)
    IN  IF u.err # NoErr
        THEN [part |-> Nil, err |-> WithStack(u.err), probes |-> <<>>]
        ELSE LET probe == f.ContentLength = 0
                 size  == IF probe THEN RequestSize(e, u.url, referer).size
                          ELSE f.ContentLength
             IN  [part   |-> [URL |-> u.url, Size |-> size, Ext |-> ext],
                  err    |-> NoErr,
                  probes |-> IF probe THEN <<u.url>> ELSE <<>>]

\* faulty variant: the first audio format of the list is taken, without Sort()
getVideoAudioFirst(v, mimeType) ==
    LET audioFormats == Type(Type(v.Formats, mimeType), "audio")
    IN  IF Len(audioFormats) = 0
        THEN [format |-> Nil, err |-> ErrorsNew("no audio format found after filtering")]
        ELSE [format |-> audioFormats[1], err |-> NoErr]

getVideoAudio(v, mimeType) ==
    LET audioFormats == Type(Type(v.Formats, mimeType), "audio")
    IN  IF Len(audioFormats) = 0
        THEN [format |-> Nil, err |-> ErrorsNew("no audio format found after filtering")]
        ELSE [format |-> Sort(audioFormats)[1], err |-> NoErr]

-----------------------------------------------------------------------------
(* youtubeDownload: the local state of one invocation, one loop iteration  *)
(* per step                                                                *)

\* lines 152-153: the invocation starts with empty streams and audioCache;
\* urlLog and probeLog record the calls to the collaborators
NewCall(e, url, v) ==
    [e |-> e, url |-> url, video |-> v, i |-> 1, streams |-> EmptyMap,
     audioCache |-> EmptyMap, ret |-> Nil, urlLog |-> <<>>, probeLog |-> <<>>]

\* strconv.Itoa
Itoa(n) == ToString(n)

\* faulty variant: a format whose resolution fails is skipped instead of failing
\* the video
SkipFormat(st, e) == [st EXCEPT !.i = @ + 1]

\* return extractors.EmptyData(url, err)
ReturnEmptyData(st, e) == [st EXCEPT !.ret = EmptyData(st.url, e)]

\* faulty variant: the resolved audio part is not stored
CachePutLost(cache, ext, part) == cache

\* audioCache[part.Ext] = audioPart
CachePut(cache, ext, part) == (ext :> part) @@ cache

\* streams[itag] = stream, and on to the next format
StoreStream(st, itag, stream) ==
    [st EXCEPT !.streams = (itag :> stream) @@ @, !.i = @ + 1]

\* history of the calls to GetStreamURL (for which format, as the primary or
\* the companion audio part, for which extension) and to request.Size
LogURL(st, f, role, ext, p) ==
    [st EXCEPT !.urlLog = Append(@, [itag |-> f.ItagNo, role |-> role, ext |-> ext]),
               !.probeLog = @ \o p.probes]

\* the body of the loop over video.Formats, for the format at st.i
Iterate(st) ==
    LET v       == st.video
        f       == v.Formats[st.i]
        itag    == Itoa(f.ItagNo)
        quality == IF f.QualityLabel # ""
                   THEN <<f.QualityLabel, " ">> \o f.MimeType
                   ELSE f.MimeType
        p       == genPartByFormat(st.e, v, f)
        st1     == LogURL(st, f, "primary", getStreamExt(f.MimeType), p)
    IN  IF p.err # NoErr THEN ReturnEmptyData(st1, p.err)
        ELSE
        LET part   == p.part
            stream == [ID |-> itag, Parts |-> <<part>>, Quality |-> quality,
                       Ext |-> part.Ext, NeedMux |-> TRUE]
        IN  IF f.AudioChannels # 0 THEN StoreStream(st1, itag, stream)
            ELSE IF part.Ext \in DOMAIN st1.audioCache
            THEN StoreStream(st1, itag,
                     [stream EXCEPT !.Parts = Append(@, st1.audioCache[part.Ext])])
            ELSE
            LET a == getVideoAudio(v, part.Ext)
            IN  IF a.err # NoErr THEN ReturnEmptyData(st1, a.err)
                ELSE
                LET ap  == genPartByFormat(st.e, v, a.format)
                    st2 == LogURL(st1, a.format, "audio", part.Ext, ap)
                IN  IF ap.err # NoErr THEN ReturnEmptyData(st2, ap.err)
                    ELSE StoreStream(
                             [st2 EXCEPT !.audioCache = CachePut(@, part.Ext, ap.part)],
                             itag,
                             [stream EXCEPT !.Parts = Append(@, ap.part)])

\* lines 199-205: the success result
Finish(st) ==
    [st EXCEPT !.ret = [Site |-> "YouTube youtube.com", Title |-> st.video.Title,
                        Type |-> "video", Streams |-> st.streams,
                        URL |-> st.url, Err |-> NoErr]]

Running(st) == st.ret = Nil
AtFormat(st) == Running(st) /\ st.i <= Len(st.video.Formats)
AfterLoop(st) == Running(st) /\ st.i > Len(st.video.Formats)

\* the whole of youtubeDownload(url, video)
RECURSIVE RunCall(_)
RunCall(st) ==
    IF AtFormat(st) THEN RunCall(Iterate(st))
    ELSE IF AfterLoop(st) THEN Finish(st)
    ELSE st

youtubeDownload(e, url, v) == RunCall(NewCall(e, url, v)).ret

-----------------------------------------------------------------------------
(* Extract, option.Playlist = false (lines 113-119) *)

Videos(n) ==
    { [ID |-> "v0", Title |-> "title v0", Formats |-> fs] :
        fs \in DistinctSeqs(FormatCatalog, n) }

\* at most one failing collaborator call per kind
AtMostOne(S) == {{}} \cup { {x} : x \in S }

Itags(fs) == { fs[i].ItagNo : i \in DOMAIN fs }

ProbedItags(fs) == { fs[i].ItagNo : i \in { j \in DOMAIN fs : fs[j].ContentLength = 0 } }

InitSingle ==
    /\ pc = "start"
    /\ video \in Videos(MaxFormats)
    /\ failing \in AtMostOne(Itags(video.Formats))
    /\ probeFailing \in AtMostOne(ProbedItags(video.Formats))
    /\ call = Nil
    /\ playlist = <<>>
    /\ failEntries = {}
    /\ needDownloadItems = <<>>
    /\ threadNumber = 1
    /\ extractedData = <<>>
    /\ dataIndex = 0
    /\ index = 0
    /\ wgp = Nil
    /\ tasks = <<>>
    /\ writes = <<>>
    /\ ret = NilSlice
    /\ err = NoErr

pvars == <<playlist, failEntries, needDownloadItems, threadNumber, extractedData,
           dataIndex, index, wgp, tasks, writes>>

inputs == <<video, failing, probeFailing>>

\* lines 114-117: client.GetVideo(url) fails
GetVideoFails ==
    /\ pc = "start"
    /\ pc' = "returned"
    /\ ret' = NilSlice
    /\ err' = WithStack(EntryError)
    /\ UNCHANGED <<inputs, call, pvars>>

\* line 114, then line 118 enters youtubeDownload(url, video)
GetVideo ==
    /\ pc = "start"
    /\ pc' = "download"
    /\ call' = NewCall(Extractor, SourceURL, video)
    /\ UNCHANGED <<inputs, pvars, ret, err>>

\* lines 155-197, one format
DownloadFormat ==
    /\ pc = "download"
    /\ AtFormat(call)
    /\ call' = Iterate(call)
    /\ UNCHANGED <<pc, inputs, pvars, ret, err>>

\* lines 199-205
DownloadFinish ==
    /\ pc = "download"
    /\ AfterLoop(call)
    /\ call' = Finish(call)
    /\ UNCHANGED <<pc, inputs, pvars, ret, err>>

\* faulty variant: a failure-shaped result is dropped from the returned slice
ReturnSingleDropsFailure ==
    /\ pc = "download"
    /\ ~Running(call)
    /\ pc' = "returned"
    /\ ret' = IF call.ret.Err # NoErr THEN <<>> ELSE <<call.ret>>
    /\ err' = NoErr
    /\ UNCHANGED <<inputs, call, pvars>>

\* line 118: return []*extractors.Data{...}, nil
ReturnSingle ==
    /\ pc = "download"
    /\ ~Running(call)
    /\ pc' = "returned"
    /\ ret' = <<call.ret>>
    /\ err' = NoErr
    /\ UNCHANGED <<inputs, call, pvars>>

NextSingle ==
    \/ GetVideoFails
    \/ GetVideo
    \/ DownloadFormat
    \/ DownloadFinish
    \/ ReturnSingle

SpecSingle == InitSingle /\ [][NextSingle]_vars

\* the same, for inputs whose every GetStreamURL call succeeds
InitSingleResolvable == InitSingle /\ failing = {}

SpecSingleResolvable == InitSingleResolvable /\ [][NextSingle]_vars

-----------------------------------------------------------------------------
(* The WaitGroupPool of utils: a pool of size slots and a counter of the   *)
(* tasks that have not called Done                                         *)

NewWaitGroupPool(size) == [size |-> size, running |-> 0]

\* Add blocks while the pool is full
WgpCanAdd(w) == w.running < w.size

WgpAdd(w) == [w EXCEPT !.running = @ + 1]

WgpDone(w) == [w EXCEPT !.running = @ - 1]

\* Wait blocks until every task has called Done
WgpIdle(w) == w.running = 0

-----------------------------------------------------------------------------
(* Extract, option.Playlist = true (lines 121-147) *)

CatalogFormat(itag) == CHOOSE f \in FormatCatalog : f.ItagNo = itag

\* the entry at (1-based) position k of the playlist
PlaylistEntry(k) == [ID |-> <<"v", k>>, Title |-> <<"title", k>>]

\* the video client.VideoFromPlaylistEntry resolves an entry to: one that
\* needs muxing, one that does not, one without a matching audio format
\* (youtubeDownload returns a failure-shaped result for it)
EntryFormats(k) ==
    IF k % 3 = 1 THEN <<CatalogFormat(248), CatalogFormat(251)>>
    ELSE IF k % 3 = 2 THEN <<CatalogFormat(18)>>
    ELSE <<CatalogFormat(247)>>

EntryPosition(entry) == entry.ID[2]

EntryVideo(entry) ==
    [ID |-> entry.ID, Title |-> entry.Title,
     Formats |-> EntryFormats(EntryPosition(entry))]

\* the outcome is fixed per entry (set failEntries)
VideoFromPlaylistEntry(entry) ==
    IF EntryPosition(entry) \in failEntries
    THEN [video |-> Nil, err |-> EntryError]
    ELSE [video |-> EntryVideo(entry), err |-> NoErr]

\* the lists utils.NeedDownloadList can return: 1-based positions, in any
\* order, possibly repeated, possibly past the end of the playlist
SelectionLists(n, m) == UNION { [1..k -> 1..(n + 1)] : k \in 0..m }

\* slices.Contains
SlicesContains(list, x) == \E i \in DOMAIN list : list[i] = x

Init ==
    /\ pc = "start"
    /\ video = Nil
    /\ call = Nil
    /\ playlist = [k \in 1..NumEntries |-> PlaylistEntry(k)]
    /\ needDownloadItems \in SelectionLists(NumEntries, MaxItems)
    /\ failEntries \in SUBSET (Range(needDownloadItems) \cap 1..NumEntries)
    /\ failing = {}
    /\ probeFailing = {}
    /\ threadNumber \in 1..MaxThreads
    /\ extractedData = <<>>
    /\ dataIndex = 0
    /\ index = 0
    /\ wgp = Nil
    /\ tasks = <<>>
    /\ writes = <<>>
    /\ ret = NilSlice
    /\ err = NoErr

pinputs == <<video, call, playlist, needDownloadItems, failEntries, failing,
             probeFailing, threadNumber>>

\* lines 121-124: client.GetPlaylist(url) fails
GetPlaylistFails ==
    /\ pc = "start"
    /\ pc' = "returned"
    /\ ret' = NilSlice
    /\ err' = WithStack(PlaylistError)
    /\ UNCHANGED <<pinputs, extractedData, dataIndex, index, wgp, tasks, writes>>

\* lines 121-129
GetPlaylist ==
    /\ pc = "start"
    /\ pc' = "loop"
    /\ extractedData' = [i \in 1..Len(needDownloadItems) |-> Nil]
    /\ wgp' = NewWaitGroupPool(threadNumber)
    /\ dataIndex' = 0
    /\ index' = 0
    /\ UNCHANGED <<pinputs, tasks, writes, ret, err>>

AtEntry == pc = "loop" /\ index < Len(playlist)

Selected == SlicesContains(needDownloadItems, index + 1)

\* faulty variant: an entry that is not selected still advances dataIndex
SkipAdvancesSlot ==
    /\ AtEntry
    /\ ~Selected
    /\ index' = index + 1
    /\ dataIndex' = dataIndex + 1
    /\ UNCHANGED <<pc, pinputs, extractedData, wgp, tasks, writes, ret, err>>

\* lines 131-133: the entry is not selected
Skip ==
    /\ AtEntry
    /\ ~Selected
    /\ index' = index + 1
    /\ UNCHANGED <<pc, pinputs, extractedData, dataIndex, wgp, tasks, writes, ret, err>>

\* faulty variant: the goroutine is given the playlist index, not dataIndex
NewTaskAtPlaylistIndex(slot, entry) ==
    [index |-> EntryPosition(entry) - 1, entry |-> entry, pc |-> "resolve", call |-> Nil]

\* the goroutine of lines 136-143, with its arguments
NewTask(slot, entry) == [index |-> slot, entry |-> entry, pc |-> "resolve", call |-> Nil]

\* faulty variant: the goroutine is started without wgp.Add()
DispatchWithoutAdd ==
    /\ AtEntry
    /\ Selected
    /\ tasks' = Append(tasks, NewTask(dataIndex, playlist[index + 1]))
    /\ dataIndex' = dataIndex + 1
    /\ index' = index + 1
    /\ UNCHANGED <<pc, pinputs, wgp, extractedData, writes, ret, err>>

\* faulty variant: dataIndex is not advanced after the goroutine is started
DispatchSameSlot ==
    /\ AtEntry
    /\ Selected
    /\ WgpCanAdd(wgp)
    /\ wgp' = WgpAdd(wgp)
    /\ tasks' = Append(tasks, NewTask(dataIndex, playlist[index + 1]))
    /\ index' = index + 1
    /\ UNCHANGED <<pc, pinputs, dataIndex, extractedData, writes, ret, err>>

\* faulty variant: dataIndex is advanced before the goroutine is started
DispatchPreIncrement ==
    /\ AtEntry
    /\ Selected
    /\ WgpCanAdd(wgp)
    /\ wgp' = WgpAdd(wgp)
    /\ tasks' = Append(tasks, NewTask(dataIndex + 1, playlist[index + 1]))
    /\ dataIndex' = dataIndex + 1
    /\ index' = index + 1
    /\ UNCHANGED <<pc, pinputs, extractedData, writes, ret, err>>

\* lines 135-144: wgp.Add(), go func(dataIndex, videoEntry, extractedData),
\* dataIndex++
Dispatch ==
    /\ AtEntry
    /\ Selected
    /\ WgpCanAdd(wgp)
    /\ wgp' = WgpAdd(wgp)
    /\ tasks' = Append(tasks, NewTask(dataIndex, playlist[index + 1]))
    /\ dataIndex' = dataIndex + 1
    /\ index' = index + 1
    /\ UNCHANGED <<pc, pinputs, extractedData, writes, ret, err>>

\* faulty variant: return extractedData without wgp.Wait()
ReturnWithoutWait ==
    /\ pc = "loop"
    /\ index = Len(playlist)
    /\ pc' = "returned"
    /\ ret' = extractedData
    /\ err' = NoErr
    /\ UNCHANGED <<pinputs, extractedData, dataIndex, index, wgp, tasks, writes>>

\* lines 146-147: wgp.Wait(), return extractedData, nil
WaitAndReturn ==
    /\ pc = "loop"
    /\ index = Len(playlist)
    /\ WgpIdle(wgp)
    /\ pc' = "returned"
    /\ ret' = extractedData
    /\ err' = NoErr
    /\ UNCHANGED <<pinputs, extractedData, dataIndex, index, wgp, tasks, writes>>

mainvars == <<pc, pinputs, dataIndex, index>>

\* faulty variant: a task whose entry cannot be resolved makes Extract fail
EntryFailureAborts(t) ==
    /\ pc # "panic"
    /\ tasks[t].pc = "resolve"
    /\ VideoFromPlaylistEntry(tasks[t].entry).err # NoErr
    /\ tasks' = [tasks EXCEPT ![t].pc = "deferred"]
    /\ err' = WithStack(EntryError)
    /\ extractedData' = [i \in DOMAIN extractedData |-> Nil]
    /\ UNCHANGED <<mainvars, wgp, writes, ret>>

\* faulty variant: the goroutine returns on the error without wgp.Done()
TaskResolveFailsWithoutDone(t) ==
    /\ pc # "panic"
    /\ tasks[t].pc = "resolve"
    /\ VideoFromPlaylistEntry(tasks[t].entry).err # NoErr
    /\ tasks' = [tasks EXCEPT ![t].pc = "exited"]
    /\ UNCHANGED <<mainvars, extractedData, wgp, writes, ret, err>>

\* lines 138-141: VideoFromPlaylistEntry fails, the goroutine returns
TaskResolveFails(t) ==
    /\ pc # "panic"
    /\ tasks[t].pc = "resolve"
    /\ VideoFromPlaylistEntry(tasks[t].entry).err # NoErr
    /\ tasks' = [tasks EXCEPT ![t].pc = "deferred"]
    /\ UNCHANGED <<mainvars, extractedData, wgp, writes, ret, err>>

\* line 138, then line 142 enters youtubeDownload(url, video)
TaskResolve(t) ==
    /\ pc # "panic"
    /\ tasks[t].pc = "resolve"
    /\ VideoFromPlaylistEntry(tasks[t].entry).err = NoErr
    /\ tasks' = [tasks EXCEPT
                   ![t].pc = "download",
                   ![t].call = NewCall(Extractor, SourceURL,
                                     VideoFromPlaylistEntry(tasks[t].entry).video)]
    /\ UNCHANGED <<mainvars, extractedData, wgp, writes, ret, err>>

\* faulty variant: one audioCache shared by all invocations
SharedCache ==
    LET cs   == { u \in DOMAIN tasks : tasks[u].call # Nil }
        exts == UNION { DOMAIN tasks[u].call.audioCache : u \in cs }
    IN  [x \in exts |->
            tasks[CHOOSE u \in cs : x \in DOMAIN tasks[u].call.audioCache].call.audioCache[x]]

\* faulty variant: the iteration reads the audioCache shared by all invocations
TaskFormatSharedCache(t) ==
    /\ pc # "panic"
    /\ tasks[t].pc = "download"
    /\ AtFormat(tasks[t].call)
    /\ tasks' = [tasks EXCEPT ![t].call = Iterate([@ EXCEPT !.audioCache = SharedCache])]
    /\ UNCHANGED <<mainvars, extractedData, wgp, writes, ret, err>>

\* lines 155-197 in the goroutine, one format
TaskFormat(t) ==
    /\ pc # "panic"
    /\ tasks[t].pc = "download"
    /\ AtFormat(tasks[t].call)
    /\ tasks' = [tasks EXCEPT ![t].call = Iterate(@)]
    /\ UNCHANGED <<mainvars, extractedData, wgp, writes, ret, err>>

\* the value youtubeDownload returns once its loop is over or has returned
Returns(st) == IF AfterLoop(st) THEN Finish(st) ELSE st

\* faulty variant: the result is stored at the next free position, in the
\* order in which the goroutines finish
TaskWriteInCompletionOrder(t) ==
    /\ pc # "panic"
    /\ tasks[t].pc = "download"
    /\ ~AtFormat(tasks[t].call)
    /\ LET slot == Len(writes) + 1
           done == Returns(tasks[t].call)
       IN  IF slot \in DOMAIN extractedData
           THEN /\ extractedData' = [extractedData EXCEPT ![slot] = done.ret]
                /\ writes' = Append(writes, slot - 1)
                /\ tasks' = [tasks EXCEPT ![t].pc = "deferred", ![t].call = done]
                /\ UNCHANGED <<mainvars, wgp, ret, err>>
           ELSE /\ pc' = "panic"
                /\ UNCHANGED <<pinputs, dataIndex, index, extractedData, wgp,
                               tasks, writes, ret, err>>

\* faulty variant: only a successful result is stored in the slot
TaskWriteSkipsFailure(t) ==
    /\ pc # "panic"
    /\ tasks[t].pc = "download"
    /\ ~AtFormat(tasks[t].call)
    /\ LET slot == tasks[t].index + 1
           done == Returns(tasks[t].call)
       IN  IF slot \in DOMAIN extractedData
           THEN /\ extractedData' = IF done.ret.Err = NoErr
                                    THEN [extractedData EXCEPT ![slot] = done.ret]
                                    ELSE extractedData
                /\ writes' = Append(writes, tasks[t].index)
                /\ tasks' = [tasks EXCEPT ![t].pc = "deferred", ![t].call = done]
                /\ UNCHANGED <<mainvars, wgp, ret, err>>
           ELSE /\ pc' = "panic"
                /\ UNCHANGED <<pinputs, dataIndex, index, extractedData, wgp,
                               tasks, writes, ret, err>>

\* line 142: extractedData[index] = the result of youtubeDownload; an index
\* out of range panics
TaskWrite(t) ==
    /\ pc # "panic"
    /\ tasks[t].pc = "download"
    /\ ~AtFormat(tasks[t].call)
    /\ LET slot == tasks[t].index + 1
           done == Returns(tasks[t].call)
       IN  IF slot \in DOMAIN extractedData
           THEN /\ extractedData' = [extractedData EXCEPT ![slot] = done.ret]
                /\ writes' = Append(writes, tasks[t].index)
                /\ tasks' = [tasks EXCEPT ![t].pc = "deferred", ![t].call = done]
                /\ UNCHANGED <<mainvars, wgp, ret, err>>
           ELSE /\ pc' = "panic"
                /\ UNCHANGED <<pinputs, dataIndex, index, extractedData, wgp,
                               tasks, writes, ret, err>>

\* line 137: the deferred wgp.Done()
TaskDone(t) ==
    /\ pc # "panic"
    /\ tasks[t].pc = "deferred"
    /\ tasks' = [tasks EXCEPT ![t].pc = "exited"]
    /\ wgp' = WgpDone(wgp)
    /\ UNCHANGED <<mainvars, extractedData, writes, ret, err>>

Next ==
    \/ GetPlaylistFails
    \/ GetPlaylist
    \/ Skip
    \/ Dispatch
    \/ WaitAndReturn
    \/ \E t \in DOMAIN tasks : TaskResolveFails(t)
    \/ \E t \in DOMAIN tasks : TaskResolve(t)
    \/ \E t \in DOMAIN tasks : TaskFormat(t)
    \/ \E t \in DOMAIN tasks : TaskWrite(t)
    \/ \E t \in DOMAIN tasks : TaskDone(t)

Spec == Init /\ [][Next]_vars

-----------------------------------------------------------------------------
(* Properties of youtubeDownload (SpecSingle) *)

Succeeded(data) == data # Nil /\ data.Err = NoErr

\* Extract returned the result of youtubeDownload
ReturnedData == pc = "returned" /\ err = NoErr

FormatOf(v, id) == CHOOSE f \in Range(v.Formats) : Itoa(f.ItagNo) = id

VideoOnly(f) == f.AudioChannels = 0

AudioOnly(f) == f.MimeType[1] = "audio"

PartOf(v, f, part) ==
    /\ part.URL = <<v.ID, f.ItagNo>>
    /\ part.Ext = getStreamExt(f.MimeType)

\* C4: in a successful result a stream needs muxing iff its own format has
\* zero audio channels
C4_NeedMuxIffVideoOnly ==
    (ReturnedData /\ Succeeded(ret[1])) =>
        \A id \in DOMAIN ret[1].Streams :
            ret[1].Streams[id].NeedMux <=> VideoOnly(FormatOf(video, id))

\* C5: in a successful result a stream has 2 parts when its format has zero
\* audio channels and 1 otherwise; the first is the part of its own format,
\* the second the part of an audio-only format of the same extension
C5_PartsShape ==
    (ReturnedData /\ Succeeded(ret[1])) =>
        \A id \in DOMAIN ret[1].Streams :
            LET s == ret[1].Streams[id]
                f == FormatOf(video, id)
            IN  /\ Len(s.Parts) = IF VideoOnly(f) THEN 2 ELSE 1
                /\ PartOf(video, f, s.Parts[1])
                /\ Len(s.Parts) = 2 =>
                      \E a \in Range(video.Formats) :
                          /\ AudioOnly(a)
                          /\ PartOf(video, a, s.Parts[2])
                          /\ s.Parts[2].Ext = s.Parts[1].Ext

AudioResolutions(st, ext) ==
    Len(SelectSeq(st.urlLog, LAMBDA c : c.role = "audio" /\ c.ext = ext))

VideoOnlyOfExt(v, ext) ==
    { f \in Range(v.Formats) : VideoOnly(f) /\ getStreamExt(f.MimeType) = ext }

Exts == { getStreamExt(f.MimeType) : f \in FormatCatalog }

FailedCalls(st) == SelectSeq(st.urlLog, LAMBDA c : c.itag \in failing)

\* C7: once a GetStreamURL call has failed, the call's result is the
\* failure-shaped one for the source URL and that error, with no streams;
\* and a success result has a stream for every format of the list
C7_URLFailureAbortsVideo ==
    /\ (call # Nil /\ FailedCalls(call) # <<>>) =>
          LET f == CHOOSE g \in Range(video.Formats) : g.ItagNo = FailedCalls(call)[1].itag
          IN  /\ call.ret # Nil
              /\ call.ret.URL = SourceURL
              /\ call.ret.Err = WithStack(StreamURLError(f))
              /\ DOMAIN call.ret.Streams = {}
              /\ pc = "returned" => (err = NoErr /\ ret = <<call.ret>>)
    /\ ReturnedData =>
          /\ Len(ret) = 1
          /\ DOMAIN ret[1].Streams =
                IF Succeeded(ret[1]) THEN { Itoa(i) : i \in Itags(video.Formats) } ELSE {}

\* the companion audio's URL failed after streams had been built
C7_Witness ==
    /\ ReturnedData
    /\ FailedCalls(call) # <<>>
    /\ FailedCalls(call)[1].role = "audio"
    /\ DOMAIN call.streams # {}
    /\ DOMAIN ret[1].Streams = {}

Unmatched(v) ==
    { f \in Range(v.Formats) :
        /\ VideoOnly(f)
        /\ ~\E a \in Range(v.Formats) :
              AudioOnly(a) /\ getStreamExt(a.MimeType) = getStreamExt(f.MimeType) }

\* C8: when the list has a video-only format whose extension no audio-only
\* format shares, the result is the failure "no audio format found" with
\* no streams
C8_UnmatchedVideoFails ==
    (ReturnedData /\ Unmatched(video) # {}) =>
        /\ ret[1].Err.msg = "no audio format found after filtering"
        /\ DOMAIN ret[1].Streams = {}

-----------------------------------------------------------------------------
(* Properties of Extract in playlist mode (Spec) *)

\* the selected positions that exist in the playlist
SelectedPositions == Range(needDownloadItems) \cap (1..Len(playlist))

\* the i-th smallest element of a set of numbers
NthSmallest(S, i) == CHOOSE x \in S : Cardinality({ y \in S : y < x }) = i - 1

\* the list holds distinct positions of the playlist
DistinctInRange ==
    /\ \A i \in DOMAIN needDownloadItems : needDownloadItems[i] \in 1..Len(playlist)
    /\ \A i, j \in DOMAIN needDownloadItems :
          i # j => needDownloadItems[i] # needDownloadItems[j]

\* what youtubeDownload returns for the entry at position k (in playlist
\* mode every URL resolves and every probe answers)
ExpectedResults ==
    [k \in 1..NumEntries |->
        youtubeDownload([failing |-> {}, probeFailing |-> {}], SourceURL,
                        EntryVideo(PlaylistEntry(k)))]

Expected(k) == ExpectedResults[k]

\* Extract returned from its last line
ReturnedSlice == pc = "returned" /\ wgp # Nil

\* C1: the output has one position per selected index, and a populated
\* position i holds the result of the entry at the i-th smallest selected
\* index, at any moment and in the returned sequence, whatever the order in
\* which the tasks finish
C1_OrderPreserved ==
    /\ pc # "panic"
    /\ pc \in {"loop", "returned"} /\ wgp # Nil =>
          /\ Len(extractedData) = Len(needDownloadItems)
          /\ \A i \in DOMAIN extractedData :
                extractedData[i] # Nil =>
                    /\ i <= Cardinality(SelectedPositions)
                    /\ extractedData[i] = Expected(NthSmallest(SelectedPositions, i))
    /\ ReturnedSlice => ret = extractedData

\* three distinct selected indices, two workers, and the task of a later
\* slot wrote before the task of an earlier one
C1_Witness ==
    /\ ReturnedSlice
    /\ DistinctInRange
    /\ Len(needDownloadItems) = 3
    /\ threadNumber = 2
    /\ Len(writes) = 3
    /\ \E i, j \in DOMAIN writes : i < j /\ writes[i] > writes[j]
    /\ \A i \in DOMAIN ret : ret[i] # Nil

\* the tasks that were dispatched and have not completed
InFlight == { t \in DOMAIN tasks : tasks[t].pc # "exited" }

\* C2: at most threadNumber tasks are in flight, and while threadNumber
\* tasks are in flight the dispatch of the next selected entry is blocked:
\* no task starts and Extract does not fail
C2_BoundedInFlight ==
    /\ Cardinality(InFlight) <= threadNumber
    /\ (AtEntry /\ Selected /\ Cardinality(InFlight) = threadNumber) =>
          /\ ~ENABLED Dispatch
          /\ err = NoErr

\* a selected entry waits for a worker
C2_Witness ==
    /\ AtEntry /\ Selected
    /\ threadNumber = 2
    /\ Cardinality(InFlight) = threadNumber

\* C3: when Extract has returned the output sequence every dispatched task
\* has completed, every selected entry was dispatched, and the sequence the
\* caller holds is the final one (no slot is written afterwards)
C3_ReturnsAfterAllTasks ==
    ReturnedSlice =>
        /\ \A t \in DOMAIN tasks : tasks[t].pc = "exited"
        /\ Len(tasks) = Cardinality(SelectedPositions)
        /\ ret = extractedData

\* Extract returned after three tasks, two of which wrote their slots
C3_Witness ==
    /\ ReturnedSlice
    /\ Len(tasks) = 3
    /\ Len(writes) >= 2

\* C9: after the call returns every slot of a selected item holds a result,
\* a success or a failure-shaped one
C9_EverySlotHoldsAResult ==
    (ReturnedSlice /\ DistinctInRange) =>
        \A i \in DOMAIN ret : ret[i] # Nil

\* C10: whichever selected items fail to resolve, the call returns the
\* sequence without an error and the slot of every other selected item
\* holds the result that item has when nothing fails
C10_FailureIsolation ==
    (ReturnedSlice /\ DistinctInRange) =>
        /\ err = NoErr
        /\ \A i \in DOMAIN ret :
              NthSmallest(SelectedPositions, i) \notin failEntries =>
                  ret[i] = Expected(NthSmallest(SelectedPositions, i))

\* the first and the last of three selected items failed, the second did not
C10_Witness ==
    /\ ReturnedSlice /\ DistinctInRange
    /\ Len(needDownloadItems) = 3
    /\ Cardinality(failEntries) = 2
    /\ ret[1] = Nil /\ ret[2] # Nil /\ ret[3] = Nil

\* what Extract returns when the goroutines run one after the other
\* (ThreadNumber = 1): slot i holds the result of the entry at the i-th
\* smallest selected position, nothing when that entry cannot be resolved,
\* and nothing in the slots no goroutine was given
SequentialResult ==
    [i \in 1..Len(needDownloadItems) |->
        IF i <= Cardinality(SelectedPositions)
        THEN LET k == NthSmallest(SelectedPositions, i)
             IN  IF k \in failEntries THEN Nil ELSE Expected(k)
        ELSE Nil]

\* C11: for the same playlist, selection and collaborator outcomes the
\* returned sequence is the same, position by position, whatever the
\* concurrency limit (1, the number of selected items, or any other) and
\* whatever the interleaving of the goroutines: it is the sequence of the
\* run that executes the tasks one after the other
C11_SameAsSequential ==
    ReturnedSlice => ret = SequentialResult

\* as many workers as selected items, and the second task wrote first
C11_Witness ==
    /\ ReturnedSlice
    /\ DistinctInRange
    /\ Len(needDownloadItems) = 2
    /\ threadNumber = Len(needDownloadItems)
    /\ writes = <<1, 0>>
    /\ ret = SequentialResult

-----------------------------------------------------------------------------
(* Properties of Extract in single-video mode (SpecSingle) *)

\* the request failed: Extract returned an error, or a result that carries one
RequestFailed ==
    /\ pc = "returned"
    /\ wgp = Nil
    /\ err # NoErr \/ ret[1].Err # NoErr

\* the video-only formats for which the audio lookup of line 183 finds nothing
NoAudioFor(v) ==
    { f \in Range(v.Formats) :
        VideoOnly(f) /\ getVideoAudio(v, getStreamExt(f.MimeType)).err # NoErr }

\* C12 as stated: in single-video mode every failed request, whether the
\* video, a format URL or the audio could not be resolved, yields a
\* one-element sequence whose element carries the source URL and the cause
C12_FailureYieldsOneResult ==
    RequestFailed =>
        /\ Len(ret) = 1
        /\ ret[1].URL = SourceURL
        /\ ret[1].Err # NoErr

\* C12, amended: a format URL failure or a missing audio format yields a
\* one-element sequence whose element is the failure-shaped result for the
\* source URL and that cause, with a nil error; a failure to resolve the
\* video yields no sequence and the error as the error value of Extract
C12_SingleModeFailures ==
    (pc = "returned" /\ wgp = Nil) =>
        /\ err # NoErr => (ret = NilSlice /\ err = WithStack(EntryError) /\ call = Nil)
        /\ err = NoErr =>
              /\ Len(ret) = 1
              /\ ret[1] = call.ret
              /\ ret[1].URL = SourceURL
              /\ FailedCalls(call) # <<>> =>
                    \E f \in Range(video.Formats) :
                        /\ f.ItagNo \in failing
                        /\ ret[1] = EmptyData(SourceURL, WithStack(StreamURLError(f)))
              /\ (FailedCalls(call) = <<>> /\ NoAudioFor(video) # {}) =>
                    ret[1] = EmptyData(SourceURL,
                                 ErrorsNew("no audio format found after filtering"))
              /\ (FailedCalls(call) = <<>> /\ NoAudioFor(video) = {}) =>
                    Succeeded(ret[1])

\* the audio lookup failed after streams had been built: one failure-shaped
\* element
C12_Witness ==
    /\ RequestFailed
    /\ err = NoErr
    /\ Len(ret) = 1
    /\ ret[1].Err = ErrorsNew("no audio format found after filtering")
    /\ DOMAIN call.streams # {}
    /\ failing # {}

-----------------------------------------------------------------------------
(* Properties of genPartByFormat (SpecSingle) *)

\* the parts built so far by the call, primary and companion audio alike
PartsBuilt(st) ==
    UNION { Range(st.streams[id].Parts) : id \in DOMAIN st.streams }
        \cup { st.audioCache[ext] : ext \in DOMAIN st.audioCache }

\* the calls to GetStreamURL for the format of this itag that returned a URL
Resolutions(st, itag) ==
    Len(SelectSeq(st.urlLog, LAMBDA c : c.itag = itag /\ itag \notin st.e.failing))

\* the calls to request.Size for the URL of the format of this itag
Probes(st, itag) ==
    Len(SelectSeq(st.probeLog, LAMBDA u : u = <<st.video.ID, itag>>))

\* C13: a part's size is the format's ContentLength when that is not zero,
\* and no probe is issued for it; otherwise the resolved URL is probed once
\* per resolution and the size is the probed one, 0 when the probe fails;
\* and the call fails exactly when it fails with every probe answering
C13_PartSize ==
    call # Nil =>
        /\ \A f \in Range(video.Formats) :
              Probes(call, f.ItagNo) =
                  IF f.ContentLength # 0 THEN 0 ELSE Resolutions(call, f.ItagNo)
        /\ \A part \in PartsBuilt(call) :
              LET f == CHOOSE g \in Range(video.Formats) : g.ItagNo = part.URL[2]
              IN  part.Size =
                      IF f.ContentLength # 0 THEN f.ContentLength
                      ELSE IF f.ItagNo \in probeFailing THEN 0
                      ELSE RequestSize(Extractor, part.URL, referer).size
        /\ call.ret # Nil =>
              call.ret.Err =
                  youtubeDownload([failing |-> failing, probeFailing |-> {}],
                                  SourceURL, video).Err

\* a successful result with a part of known length, a part of probed size
\* and a part whose probe failed
C13_Witness ==
    /\ ReturnedData /\ Succeeded(ret[1])
    /\ probeFailing # {}
    /\ \E p, q, r \in PartsBuilt(call) :
          /\ p.URL[2] \in probeFailing /\ p.Size = 0
          /\ q.URL[2] \notin probeFailing /\ Probes(call, q.URL[2]) = 1
          /\ q.Size = RequestSize(Extractor, q.URL, referer).size /\ q.Size # 0
          /\ Probes(call, r.URL[2]) = 0 /\ r.Size # 0

-----------------------------------------------------------------------------
(* Properties of the goroutines of Extract in playlist mode (Spec) *)

\* a result of youtubeDownload: the success result, or the failure-shaped
\* one for the source URL
IsResult(r) ==
    /\ r # Nil
    /\ r.URL = SourceURL
    /\ r.Err # NoErr => r = EmptyData(SourceURL, r.Err)
    /\ r.Err = NoErr => r.Type = "video"

\* the next step of the invocation: an iteration moves to the next format
\* or returns a result, and past the last format the success result is
\* returned; the list being finite, the invocation returns a result
RunsToAResult(st) ==
    IF AtFormat(st)
    THEN LET n == Iterate(st)
         IN  \/ n.i = st.i + 1 /\ Running(n)
             \/ IsResult(n.ret)
    ELSE IsResult(Returns(st).ret)

\* the entry of the task was resolved to a video
Resolved(task) == VideoFromPlaylistEntry(task.entry).err = NoErr

Wrote(task) == task.pc \in {"deferred", "exited"} /\ Resolved(task)

\* C15: no two dispatched tasks are bound to the same slot, a slot is
\* written at most once and only by the task bound to it, which holds the
\* value it wrote; so no two goroutines ever write the same element
C15_SlotOwnership ==
    /\ \A t, u \in DOMAIN tasks : t # u => tasks[t].index # tasks[u].index
    /\ \A i, j \in DOMAIN writes : i # j => writes[i] # writes[j]
    /\ \A t \in DOMAIN tasks :
          Cardinality({ i \in DOMAIN writes : writes[i] = tasks[t].index })
              = IF Wrote(tasks[t]) THEN 1 ELSE 0
    /\ \A s \in DOMAIN extractedData :
          extractedData[s] # Nil =>
              \E t \in DOMAIN tasks :
                  /\ tasks[t].index = s - 1
                  /\ Wrote(tasks[t])
                  /\ extractedData[s] = tasks[t].call.ret
    /\ Len(writes) = Cardinality({ t \in DOMAIN tasks : Wrote(tasks[t]) })

\* one task has written its slot and two others are about to write theirs
\* at the same time
C15_Witness ==
    /\ Len(tasks) = 3
    /\ Len(writes) = 1
    /\ \E t, u \in DOMAIN tasks :
          /\ t # u
          /\ tasks[t].pc = "download" /\ ~AtFormat(tasks[t].call)
          /\ tasks[u].pc = "download" /\ ~AtFormat(tasks[u].call)

-----------------------------------------------------------------------------
(* youtubeDownload and the order of video.Formats (SpecReorder) *)

\* the longest list whose reorderings are compared
MaxReorder == 4

\* the inputs of single-video mode with a list of at most MaxReorder formats
InitReorder == InitSingle /\ Len(video.Formats) <= MaxReorder

SpecReorder == InitReorder /\ [][NextSingle]_vars

\* the video with its first two formats exchanged
SwapFirstTwo(v) ==
    [v EXCEPT !.Formats = <<v.Formats[2], v.Formats[1]>> \o SubSeq(v.Formats, 3, Len(v.Formats))]

\* the video with its first format moved to the end
Rotate(v) == [v EXCEPT !.Formats = Tail(v.Formats) \o <<Head(v.Formats)>>]

\* two reorderings of the list that generate all of them; every list of the
\* formats is an initial state, so what holds across these two in every
\* state holds across every permutation
Reordered(v) ==
    IF Len(v.Formats) < 2 THEN {} ELSE {SwapFirstTwo(v), Rotate(v)}

\* the error with which the iteration for format f returns, NoErr when it
\* stores a stream
FormatError(e, v, f) ==
    IF f.ItagNo \in e.failing THEN WithStack(StreamURLError(f))
    ELSE IF f.AudioChannels # 0 THEN NoErr
    ELSE LET a == getVideoAudio(v, getStreamExt(f.MimeType))
         IN  IF a.err # NoErr THEN a.err
             ELSE IF a.format.ItagNo \in e.failing
                  THEN WithStack(StreamURLError(a.format))
                  ELSE NoErr

\* the error of the first format of the list, in list order, whose iteration
\* fails
FirstError(e, v) ==
    LET bad == { i \in DOMAIN v.Formats : FormatError(e, v, v.Formats[i]) # NoErr }
    IN  IF bad = {} THEN NoErr
        ELSE FormatError(e, v, v.Formats[CHOOSE i \in bad : \A j \in bad : i <= j])

\* no two audio formats of the list have the same place in Sort()'s order
SortKeysDistinct(v) ==
    \A f, g \in Range(v.Formats) :
        (AudioOnly(f) /\ AudioOnly(g) /\ f # g) => f.Bitrate # g.Bitrate

\* C16 as stated: the result for a reordered list equals the result for the
\* list, on success and on failure
C16_OrderIndependent ==
    ReturnedData =>
        \A w \in Reordered(video) :
            youtubeDownload(Extractor, SourceURL, w) = ret[1]

\* C16, amended: for a reordered list the call succeeds iff it succeeds for
\* the list; on success the two results are equal; on failure both are the
\* failure-shaped result for the source URL, each with the error of the
\* first format of its own list whose iteration fails
C16_OrderIndependentUpToError ==
    (ReturnedData /\ SortKeysDistinct(video)) =>
        /\ ret[1].Err = FirstError(Extractor, video)
        /\ \A w \in Reordered(video) :
              youtubeDownload(Extractor, SourceURL, w) =
                  IF Succeeded(ret[1]) THEN ret[1]
                  ELSE EmptyData(SourceURL, FirstError(Extractor, w))

\* a list that fails with a URL error and, reordered, with the missing
\* audio format
C16_Witness ==
    /\ ReturnedData
    /\ ret[1].Err.msg # "no audio format found after filtering"
    /\ ret[1].Err # NoErr
    /\ \E w \in Reordered(video) :
          youtubeDownload(Extractor, SourceURL, w).Err
              = ErrorsNew("no audio format found after filtering")

\* the part was built from an audio-only format of video v
OwnAudioPart(v, part) ==
    \E a \in Range(v.Formats) : AudioOnly(a) /\ part.URL = <<v.ID, a.ItagNo>>

\* C17: the audioCache of an invocation holds only audio parts of the video
\* of that invocation, and the companion audio part of every stream, in the
\* invocation and in the output slot, was built from an audio format of the
\* stream's own video, however the goroutines interleave
C17_CacheIsLocal ==
    /\ \A t \in DOMAIN tasks :
          LET st == tasks[t].call
          IN  st # Nil =>
                  /\ st.video = EntryVideo(tasks[t].entry)
                  /\ \A ext \in DOMAIN st.audioCache :
                        OwnAudioPart(st.video, st.audioCache[ext])
                  /\ \A id \in DOMAIN st.streams :
                        /\ st.streams[id].Parts[1].URL[1] = st.video.ID
                        /\ Len(st.streams[id].Parts) = 2 =>
                              OwnAudioPart(st.video, st.streams[id].Parts[2])
    /\ \A t \in DOMAIN tasks :
          LET slot == tasks[t].index + 1
          IN  (slot \in DOMAIN extractedData /\ extractedData[slot] # Nil) =>
                  \A id \in DOMAIN extractedData[slot].Streams :
                      \A k \in DOMAIN extractedData[slot].Streams[id].Parts :
                          extractedData[slot].Streams[id].Parts[k].URL[1]
                              = tasks[t].entry.ID

\* while one invocation holds the webm audio of its video in its cache,
\* another, running at the same time, has looked up the webm audio of its
\* own video and found none
C17_Witness ==
    \E t, u \in DOMAIN tasks :
        /\ t # u
        /\ tasks[t].pc = "download" /\ tasks[u].pc = "download"
        /\ "webm" \in DOMAIN tasks[t].call.audioCache
        /\ tasks[u].call.ret # Nil
        /\ tasks[u].call.ret.Err = ErrorsNew("no audio format found after filtering")
        /\ tasks[u].call.urlLog # <<>>
        /\ tasks[u].call.urlLog[1].ext = "webm"

-----------------------------------------------------------------------------
(* Termination of Extract in playlist mode (FairSpec) *)

\* a step of the goroutine that runs Extract
MainStep ==
    \/ GetPlaylistFails
    \/ GetPlaylist
    \/ Skip
    \/ Dispatch
    \/ WaitAndReturn

\* a step of the t-th goroutine started by Extract
TaskStep(t) ==
    /\ t \in DOMAIN tasks
    /\ \/ TaskResolveFails(t)
       \/ TaskResolve(t)
       \/ TaskFormat(t)
       \/ TaskWrite(t)
       \/ TaskDone(t)

\* the t-th goroutine has been started and has not finished; it is then at
\* one of the steps of TaskStep(t), each of which changes the state
TaskCanRun(t) == t \in DOMAIN tasks /\ tasks[t].pc # "exited" /\ pc # "panic"

\* TaskCanRun(t) is the enabling condition of the t-th goroutine's step
TaskCanRunIsEnabled ==
    \A t \in 1..MaxItems : TaskCanRun(t) <=> ENABLED <<TaskStep(t)>>_vars

\* the scheduler runs every goroutine that can run, and the calls to the
\* collaborators return: weak fairness of the goroutine of Extract and of
\* each goroutine it starts. For the latter WF_vars(TaskStep(t)) is written
\* out, with TaskCanRun(t) for ENABLED <<TaskStep(t)>>_vars.
Fairness ==
    /\ WF_vars(MainStep)
    /\ \A t \in 1..MaxItems : []<>(~TaskCanRun(t)) \/ []<><<TaskStep(t)>>_vars

\* the loop reads needDownloadItems only through its length and
\* slices.Contains, so the lists are taken up to the order of their items
FairInit ==
    /\ Init
    /\ \A i \in 1..(Len(needDownloadItems) - 1) :
          needDownloadItems[i] <= needDownloadItems[i + 1]

FairSpec == FairInit /\ [][Next]_vars /\ Fairness

\* C18: with a limit of at least 1, Extract eventually returns, whatever
\* the number of selected items and whichever entries fail to resolve
C18_ExtractReturns == <>(pc = "returned")

\* Extract returned after more tasks than workers, the first of which
\* failed to resolve its entry
C18_Witness ==
    /\ ReturnedSlice
    /\ threadNumber = 1
    /\ Len(tasks) = 3
    /\ EntryPosition(tasks[1].entry) \in failEntries
    /\ \A t \in DOMAIN tasks : tasks[t].pc = "exited"
    /\ wgp.running = 0

-----------------------------------------------------------------------------
(* Slots and selection in playlist mode (Spec) *)

\* C19: whatever the selection list (repeated or out-of-range positions
\* included), the tasks are given the slots 0, 1, 2, ... in playlist order,
\* there are never more tasks than output slots, every task's slot is
\* within the output, and the slots after those of the dispatched tasks
\* stay unpopulated
C19_SlotsInBounds ==
    /\ pc # "panic"
    /\ wgp # Nil =>
          /\ Len(extractedData) = Len(needDownloadItems)
          /\ dataIndex = Len(tasks)
          /\ Len(tasks) <= Len(extractedData)
          /\ \A t \in DOMAIN tasks :
                /\ tasks[t].index = t - 1
                /\ tasks[t].index + 1 \in DOMAIN extractedData
          /\ \A t, u \in DOMAIN tasks :
                t < u => EntryPosition(tasks[t].entry) < EntryPosition(tasks[u].entry)
          /\ \A s \in DOMAIN extractedData : s > Len(tasks) => extractedData[s] = Nil

\* a list with a repeated and an out-of-range position: Extract returned
\* three slots, one task filled the first, the others are unpopulated
C19_Witness ==
    /\ ReturnedSlice
    /\ Len(needDownloadItems) = 3
    /\ ~DistinctInRange
    /\ \E i, j \in DOMAIN needDownloadItems : i # j /\ needDownloadItems[i] = needDownloadItems[j]
    /\ \E i \in DOMAIN needDownloadItems : needDownloadItems[i] > Len(playlist)
    /\ Len(tasks) = 1
    /\ ret[1] # Nil /\ ret[2] = Nil /\ ret[3] = Nil

\* the positions of the entries the loop has gone past that are selected
SelectedSoFar == { k \in 1..index : SlicesContains(needDownloadItems, k) }

\* C20: an entry that is not selected is never dispatched: the tasks are
\* exactly the selected entries the loop has gone past, in order, so every
\* entry resolution, URL resolution and size probe is for a selected entry;
\* and going past an unselected entry takes no pool slot, no output slot and
\* does not advance dataIndex
C20_UnselectedUntouched ==
    wgp # Nil =>
        /\ { EntryPosition(tasks[t].entry) : t \in DOMAIN tasks } = SelectedSoFar
        /\ dataIndex = Len(tasks)
        /\ wgp.running = Cardinality(InFlight)
        /\ \A t \in DOMAIN tasks :
              tasks[t].call # Nil =>
                  /\ tasks[t].call.video.ID = tasks[t].entry.ID
                  /\ \A u \in Range(tasks[t].call.probeLog) : u[1] = tasks[t].entry.ID
        /\ \A s \in DOMAIN extractedData : extractedData[s] # Nil => s <= Len(tasks)

\* only the second entry is selected: the first and the third were passed
\* over and the second got slot 0
C20_Witness ==
    /\ ReturnedSlice
    /\ needDownloadItems = <<2>>
    /\ index = 3
    /\ Len(tasks) = 1
    /\ tasks[1].index = 0
    /\ dataIndex = 1
    /\ ret = <<Expected(2)>>

====
